---- MODULE Spec2Model ----
(***************************************************************************)
(* Model of src/main.py: the interactive binary-insertion ranking engine   *)
(* (ask_preference, estimate_comparisons, rank_albums_by_comparisons) and  *)
(* the percentile scoring engine (parse_thresholds_dict,                   *)
(* percentile_from_rank, assign_scores_percentile, round_to_quarter).      *)
(*                                                                         *)
(* Real numbers are exact rationals <<num, den>> with den > 0, kept in     *)
(* lowest terms.  Indices i, lo, hi, mid are 0-based as in the source;     *)
(* TLA+ sequences are 1-based, so ordered[mid] of the source is            *)
(* ordered[mid + 1] here.                                                  *)
(***************************************************************************)
EXTENDS Integers, Sequences, FiniteSets, TLC

\* ------------------------------------------------------------------------
\* Bounds
\* ------------------------------------------------------------------------
MaxAlbums == 4      \* longest list handed to rank_albums_by_comparisons
MaxRetries == 2     \* inspect / invalid inputs modelled per prompt
MaxCsvRows == 21    \* longest ranking loaded from a CSV for rescoring

\* ------------------------------------------------------------------------
\* Exact rational arithmetic
\* ------------------------------------------------------------------------
Abs(x) == IF x < 0 THEN -x ELSE x

RECURSIVE GCD(_, _)
GCD(a, b) == IF b = 0 THEN a ELSE GCD(b, a % b)

Rat(n, d) ==
    LET s == IF d < 0 THEN -1 ELSE 1
        g == GCD(Abs(n), Abs(d))
    IN  <<(s * n) \div g, (s * d) \div g>>

RatLe(a, b) == a[1] * b[2] <= b[1] * a[2]
RatLt(a, b) == a[1] * b[2] < b[1] * a[2]
RatAdd(a, b) == Rat(a[1] * b[2] + b[1] * a[2], a[2] * b[2])
RatSub(a, b) == Rat(a[1] * b[2] - b[1] * a[2], a[2] * b[2])
RatMul(a, b) == Rat(a[1] * b[1], a[2] * b[2])
RatDiv(a, b) == Rat(a[1] * b[2], a[2] * b[1])
RatMin(a, b) == IF RatLe(a, b) THEN a ELSE b
RatMax(a, b) == IF RatLe(b, a) THEN a ELSE b

\* ------------------------------------------------------------------------
\* Sequences
\* ------------------------------------------------------------------------
Ident(n) == [k \in 1..n |-> k]

Range(s) == {s[k] : k \in 1..Len(s)}

RECURSIVE PermsOf(_)
PermsOf(S) ==
    IF S = {} THEN {<<>>}
    ELSE UNION {{<<x>> \o q : q \in PermsOf(S \ {x})} : x \in S}

Perms(n) == PermsOf(1..n)

\* list.append(x) in place of list.insert(pos, x)
InsertAtEnd(s, pos, x) == Append(s, x)

\* list.insert(pos, x) with a 0-based position 0 <= pos <= len(s)
InsertAt(s, pos, x) ==
    [k \in 1..(Len(s) + 1) |->
        IF k <= pos THEN s[k] ELSE IF k = pos + 1 THEN x ELSE s[k - 1]]

\* 1-based position of item a in the sequence s
PosOf(s, a) == CHOOSE k \in 1..Len(s) : s[k] = a

\* ------------------------------------------------------------------------
\* estimate_comparisons
\* ------------------------------------------------------------------------
RECURSIVE CeilLog2From(_, _, _)
CeilLog2From(i, k, pow) == IF pow >= i THEN k ELSE CeilLog2From(i, k + 1, 2 * pow)

\* math.ceil(math.log2(i)) for i >= 1: the least k with 2^k >= i
CeilLog2(i) == CeilLog2From(i, 0, 1)

RECURSIVE FloorLog2From(_, _, _)
FloorLog2From(i, k, pow) == IF 2 * pow > i THEN k ELSE FloorLog2From(i, k + 1, 2 * pow)

RECURSIVE SumFloorLog2(_, _)
SumFloorLog2(i, n) ==
    IF i > n THEN 0 ELSE FloorLog2From(i, 0, 1) + SumFloorLog2(i + 1, n)

estimate_comparisons_floor(n) == IF n <= 1 THEN 0 ELSE SumFloorLog2(2, n)

RECURSIVE SumCeilLog2(_, _)
SumCeilLog2(i, n) == IF i > n THEN 0 ELSE CeilLog2(i) + SumCeilLog2(i + 1, n)

estimate_comparisons(n) == IF n <= 1 THEN 0 ELSE SumCeilLog2(2, n)

\* ------------------------------------------------------------------------
\* State
\* ------------------------------------------------------------------------
VARIABLES
    pc,                 \* "idle" | "ask" | "ranked" | "scored" | "exited"
    mode,               \* "fresh" (ranking session) | "rescore" (CSV import)
    albums,             \* the list given to rank_albums_by_comparisons
    better,             \* the oracle's own best-first order of the items
    consistent,         \* TRUE when the oracle answers from `better`
    comparison_count,   \* global _comparison_count
    total_comparisons,  \* global _total_comparisons
    ordered,            \* local `ordered` of rank_albums_by_comparisons
    i, lo, hi,          \* locals of rank_albums_by_comparisons (0-based)
    choice,             \* local `choice` of ask_preference: last input read
    retries,            \* inspect/invalid inputs read at the current prompt
    asked,              \* ask_preference calls made by the current session
    verdicts,           \* verdicts returned to the current session
    given,              \* those verdicts, as pairs <<preferred, other>>
    report,             \* last progress line: <<position, length, count, total>>
    ranked,             \* value returned by rank_albums_by_comparisons
    raw,                \* the thresholds configuration read by main
    thresholds,         \* the dict handed to assign_scores_percentile
    clamp_min, clamp_max, quarter_round, interpolate,
    score_raw,          \* local `score` before clamping, per ranked item
    scored              \* value returned by assign_scores_percentile

rankVars == <<albums, better, consistent, comparison_count, total_comparisons,
              ordered, i, lo, hi, choice, retries, asked, verdicts, given, report,
              ranked>>
scoreVars == <<raw, thresholds, clamp_min, clamp_max, quarter_round, interpolate,
               score_raw, scored>>
vars == <<pc, mode, rankVars, scoreVars>>

NoRaw == [kind |-> "none", items |-> <<>>]

Init ==
    /\ pc = "idle"
    /\ mode = "fresh"
    /\ albums = <<>>
    /\ better = <<>>
    /\ consistent = TRUE
    /\ comparison_count = 0
    /\ total_comparisons = 0
    /\ ordered = <<>>
    /\ i = 0 /\ lo = 0 /\ hi = 0
    /\ choice = ""
    /\ retries = 0
    /\ asked = 0
    /\ verdicts = 0
    /\ given = {}
    /\ report = <<>>
    /\ ranked = <<>>
    /\ raw = NoRaw
    /\ thresholds = {}
    /\ clamp_min = <<0, 1>> /\ clamp_max = <<0, 1>>
    /\ quarter_round = FALSE /\ interpolate = FALSE
    /\ score_raw = <<>>
    /\ scored = <<>>

\* ------------------------------------------------------------------------
\* rank_albums_by_comparisons / ask_preference
\* ------------------------------------------------------------------------

\* The for loop reaches index k with the sequence ord: either the next
\* ask_preference call blocks on input, or the loop is over and ord returns.
LoopAt(k, ord) ==
    IF k < Len(albums')
    THEN /\ pc' = "ask"
         /\ i' = k /\ lo' = 0 /\ hi' = Len(ord)
         /\ ordered' = ord
         /\ asked' = asked + 1
         /\ ranked' = <<>>
    ELSE /\ pc' = "ranked"
         /\ i' = 0 /\ lo' = 0 /\ hi' = 0
         /\ ordered' = <<>>
         /\ asked' = asked
         /\ ranked' = ord

\* the for loop started at index 0 instead of 1
RankAlbumsFromZero(a, b, c) ==
    /\ pc \in {"idle", "ranked"}
    /\ mode' = "fresh"
    /\ albums' = a /\ better' = b /\ consistent' = c
    /\ choice' = "" /\ retries' = 0 /\ verdicts' = 0 /\ report' = <<>>
    /\ given' = {}
    /\ UNCHANGED scoreVars
    /\ IF a = <<>>
       THEN /\ pc' = "ranked"
            /\ ranked' = <<>>
            /\ asked' = 0
            /\ UNCHANGED <<comparison_count, total_comparisons, ordered, i, lo, hi>>
       ELSE /\ comparison_count' = 0
            /\ total_comparisons' = estimate_comparisons(Len(a))
            /\ pc' = "ask"
            /\ i' = 0 /\ lo' = 0 /\ hi' = 1
            /\ ordered' = <<a[1]>>
            /\ asked' = 1
            /\ ranked' = <<>>

\* A call rank_albums_by_comparisons(a), run up to its first prompt or return.
RankAlbums(a, b, c) ==
    /\ pc \in {"idle", "ranked"}
    /\ mode' = "fresh"
    /\ albums' = a /\ better' = b /\ consistent' = c
    /\ choice' = "" /\ retries' = 0 /\ verdicts' = 0 /\ report' = <<>>
    /\ given' = {}
    /\ UNCHANGED scoreVars
    /\ IF a = <<>>
       THEN /\ pc' = "ranked"
            /\ ranked' = <<>>
            /\ asked' = 0
            /\ UNCHANGED <<comparison_count, total_comparisons, ordered, i, lo, hi>>
       ELSE /\ comparison_count' = 0
            /\ total_comparisons' = estimate_comparisons(Len(a))
            /\ IF 1 < Len(a)
               THEN /\ pc' = "ask"
                    /\ i' = 1 /\ lo' = 0 /\ hi' = 1
                    /\ ordered' = <<a[1]>>
                    /\ asked' = 1
                    /\ ranked' = <<>>
               ELSE /\ pc' = "ranked"
                    /\ i' = 0 /\ lo' = 0 /\ hi' = 0
                    /\ ordered' = <<>>
                    /\ asked' = 0
                    /\ ranked' = <<a[1]>>

\* The answer a consistent oracle gives when asked "x over y?"
OracleChoice(x, y) == IF PosOf(better, x) < PosOf(better, y) THEN "1" ELSE "2"

\* the caller's use of the verdict: "1" narrows hi to mid, "2" lo to mid + 1
NarrowSwapped(ch, l, h, mid) == IF ch = "1" THEN <<mid + 1, h>> ELSE <<l, mid>>

\* a search that steps lo by one instead of halving the range
NarrowByOne(ch, l, h, mid) == IF ch = "1" THEN <<l, mid>> ELSE <<l + 1, h>>

Narrow(ch, l, h, mid) == IF ch = "1" THEN <<l, mid>> ELSE <<mid + 1, h>>

\* ask_preference reads "1" or "2": count, return, and the caller's search
\* step, insertion, progress line and loop advance up to the next prompt.
Verdict(ch) ==
    /\ pc = "ask"
    /\ ch \in {"1", "2"}
    /\ LET x == albums[i + 1]
           mid == (lo + hi) \div 2
           nlo == Narrow(ch, lo, hi, mid)[1]
           nhi == Narrow(ch, lo, hi, mid)[2]
       IN  /\ consistent => ch = OracleChoice(x, ordered[mid + 1])
           /\ choice' = ch
           /\ retries' = 0
           /\ comparison_count' = comparison_count + 1
           /\ verdicts' = verdicts + 1
           /\ given' = given \cup {IF ch = "1" THEN <<x, ordered[mid + 1]>>
                                               ELSE <<ordered[mid + 1], x>>}
           /\ UNCHANGED <<mode, albums, better, consistent, total_comparisons, scoreVars>>
           /\ IF nlo < nhi
              THEN /\ pc' = "ask"
                   /\ lo' = nlo /\ hi' = nhi
                   /\ asked' = asked + 1
                   /\ UNCHANGED <<i, ordered, report, ranked>>
              ELSE LET ord == InsertAt(ordered, nlo, x)
                   IN  /\ report' = <<nlo + 1, Len(ord), comparison_count + 1, total_comparisons>>
                       /\ LoopAt(i + 1, ord)

InspectCounts ==
    /\ pc = "ask"
    /\ retries < MaxRetries
    /\ choice' = "i"
    /\ retries' = retries + 1
    /\ comparison_count' = comparison_count + 1
    /\ UNCHANGED <<pc, mode, albums, better, consistent,
                   total_comparisons, ordered, i, lo, hi, asked, verdicts,
                   given, report, ranked, scoreVars>>

\* ask_preference reads "i": print the track lists and prompt again.
Inspect ==
    /\ pc = "ask"
    /\ retries < MaxRetries
    /\ choice' = "i"
    /\ retries' = retries + 1
    /\ UNCHANGED <<pc, mode, albums, better, consistent, comparison_count,
                   total_comparisons, ordered, i, lo, hi, asked, verdicts,
                   given, report, ranked, scoreVars>>

\* ask_preference reads anything else: "Invalid input. Try again."
Invalid ==
    /\ pc = "ask"
    /\ retries < MaxRetries
    /\ choice' = "?"
    /\ retries' = retries + 1
    /\ UNCHANGED <<pc, mode, albums, better, consistent, comparison_count,
                   total_comparisons, ordered, i, lo, hi, asked, verdicts,
                   given, report, ranked, scoreVars>>

QuitReturnsPartial ==
    /\ pc = "ask"
    /\ choice' = "q"
    /\ pc' = "ranked"
    /\ ranked' = ordered
    /\ UNCHANGED <<mode, albums, better, consistent, comparison_count,
                   total_comparisons, ordered, i, lo, hi, retries, asked,
                   verdicts, given, report, scoreVars>>

\* ask_preference reads "q": sys.exit(0); SystemExit is caught nowhere.
Quit ==
    /\ pc = "ask"
    /\ choice' = "q"
    /\ pc' = "exited"
    /\ UNCHANGED <<mode, albums, better, consistent, comparison_count,
                   total_comparisons, ordered, i, lo, hi, retries, asked,
                   verdicts, given, report, ranked, scoreVars>>

\* ------------------------------------------------------------------------
\* Threshold parsing: _parse_key_to_frac, parse_thresholds_dict
\* ------------------------------------------------------------------------
Zero == <<0, 1>>
One == <<1, 1>>
Hundred == <<100, 1>>

Clamp01(v) == RatMin(RatMax(v, Zero), One)

NoFrac == <<0, 0>>      \* _parse_key_to_frac returning None

\* A key k of the configuration: shape "num" is an int/float key, "str" a
\* numeric string without '%', "pct" a numeric string with '%', "bad" any
\* string the pattern _percent_pat rejects.  k.key is the number written.
parse_key_to_frac(k) ==
    CASE k.shape = "num" ->
            Clamp01(IF RatLt(One, k.key) THEN RatDiv(k.key, Hundred) ELSE k.key)
      [] k.shape = "str" ->
            Clamp01(IF RatLt(One, k.key) THEN RatDiv(k.key, Hundred) ELSE k.key)
      [] k.shape = "pct" ->
            Clamp01(RatDiv(k.key, Hundred))
      [] OTHER -> NoFrac

\* dicts are sets of <<key, value>> pairs with distinct keys
DictKeys(d) == {e[1] : e \in d}
DictValues(d) == {e[2] : e \in d}
DictGet(d, k) == (CHOOSE e \in d : e[1] = k)[2]
DictPut(d, k, v) == {e \in d : e[1] # k} \cup {<<k, v>>}

MinOf(S) == CHOOSE m \in S : \A o \in S : RatLe(m, o)
MaxOf(S) == CHOOSE m \in S : \A o \in S : RatLe(o, m)

\* the default returned for a blank configuration string
DefaultThresholds ==
    { <<Rat(99, 100), Rat(10, 1)>>,
      <<Rat(90, 100), Rat(19, 2)>>,
      <<Rat(75, 100), Rat(35, 4)>>,
      <<Rat(25, 100), Rat(15, 2)>>,
      <<Rat(0, 1),    Rat(6, 1)>> }

\* the loop over data.items(): entries with an unparseable key or value are
\* skipped, a later entry with the same fraction overwrites an earlier one
RECURSIVE ParseItems(_, _, _)
ParseItems(items, k, out) ==
    IF k > Len(items) THEN out
    ELSE LET frac == parse_key_to_frac(items[k])
         IN  IF frac = NoFrac \/ ~items[k].ok
             THEN ParseItems(items, k + 1, out)
             ELSE ParseItems(items, k + 1, DictPut(out, frac, items[k].val))

EnsureCeilingSkipped(out) == out

EnsureCeiling(out) ==
    IF One \in DictKeys(out) THEN out ELSE DictPut(out, One, MaxOf(DictValues(out)))

EnsureFloor(out) ==
    IF Zero \in DictKeys(out) THEN out ELSE DictPut(out, Zero, MinOf(DictValues(out)))

\* parse_thresholds_dict(s): [ok |-> FALSE] stands for the raised exception
parse_thresholds_dict(s) ==
    CASE s.kind = "blank" -> [ok |-> TRUE, dict |-> DefaultThresholds]
      [] s.kind = "malformed" -> [ok |-> FALSE, dict |-> {}]
      [] OTHER ->
            LET out == ParseItems(s.items, 1, {})
            IN  IF out = {} THEN [ok |-> FALSE, dict |-> {}]
                ELSE [ok |-> TRUE, dict |-> EnsureCeiling(EnsureFloor(out))]

Blank == [kind |-> "blank", items |-> <<>>]

\* main: try parse_thresholds_dict(raw) except Exception: parse_thresholds_dict("")
ThresholdsFor(s) ==
    LET res == parse_thresholds_dict(s)
    IN  IF res.ok THEN res.dict ELSE parse_thresholds_dict(Blank).dict

\* ------------------------------------------------------------------------
\* Scoring: round_to_quarter, percentile_from_rank, assign_scores_percentile
\* ------------------------------------------------------------------------

\* Python round(): nearest integer, ties to the even one
PyRound(a) ==
    LET f == a[1] \div a[2]
        r == a[1] - f * a[2]
    IN  IF 2 * r < a[2] THEN f
        ELSE IF 2 * r > a[2] THEN f + 1
        ELSE IF f % 2 = 0 THEN f ELSE f + 1

round_to_quarter(x) == Rat(PyRound(RatMul(x, <<4, 1>>)), 4)

percentile_from_rank(rank_index, n) ==
    IF n <= 1 THEN One ELSE RatSub(One, Rat(rank_index, n - 1))

PtLt(a, b) == RatLt(a[1], b[1]) \/ (a[1] = b[1] /\ RatLt(a[2], b[2]))

\* sorted(...) of the (percentile, score) tuples, ascending
RECURSIVE SortPts(_)
SortPts(S) ==
    IF S = {} THEN <<>>
    ELSE LET m == CHOOSE a \in S : \A b \in S : a = b \/ PtLt(a, b)
         IN  <<m>> \o SortPts(S \ {m})

SortedPoints(th) == SortPts({<<Clamp01(e[1]), e[2]>> : e \in th})

\* the bracketing loop: <<lo point, hi point>> for percentile p
RECURSIVE Scan(_, _, _, _, _)
Scan(pts, p, k, lop, hip) ==
    IF k > Len(pts) THEN <<lop, hip>>
    ELSE LET nlo == IF RatLe(pts[k][1], p) THEN pts[k] ELSE lop
         IN  IF RatLe(p, pts[k][1]) THEN <<nlo, pts[k]>>
             ELSE Scan(pts, p, k + 1, nlo, hip)

Bracket(pts, p) == Scan(pts, p, 1, pts[1], pts[Len(pts)])

RawScoreUpper(pts, p, interp) ==
    LET br == Bracket(pts, p)
        lo_p == br[1][1]  lo_s == br[1][2]
        hi_p == br[2][1]  hi_s == br[2][2]
    IN  IF ~interp \/ lo_p = hi_p
        THEN (IF RatLe(lo_p, p) THEN hi_s ELSE lo_s)
        ELSE LET t == RatDiv(RatSub(p, lo_p), RatSub(hi_p, lo_p))
             IN  RatAdd(lo_s, RatMul(t, RatSub(hi_s, lo_s)))

\* the value of `score` before "clamp and round"
RawScore(pts, p, interp) ==
    LET br == Bracket(pts, p)
        lo_p == br[1][1]  lo_s == br[1][2]
        hi_p == br[2][1]  hi_s == br[2][2]
    IN  IF ~interp \/ lo_p = hi_p
        THEN (IF RatLe(lo_p, p) THEN lo_s ELSE hi_s)
        ELSE LET t == RatDiv(RatSub(p, lo_p), RatSub(hi_p, lo_p))
             IN  RatAdd(lo_s, RatMul(t, RatSub(hi_s, lo_s)))

\* "clamp and round"
ClampRound(score, cmin, cmax, qr) ==
    LET c == RatMax(cmin, RatMin(cmax, score))
    IN  IF qr THEN round_to_quarter(c) ELSE c

\* the list of `score` values before clamping, one per ranked item
RawScores(rk, th, interp) ==
    [r \in 1..Len(rk) |->
        RawScore(SortedPoints(th), percentile_from_rank(r - 1, Len(rk)), interp)]

assign_scores_zero_based(rk, th, cmin, cmax, qr, interp) ==
    IF rk = <<>> THEN <<>>
    ELSE [r \in 1..Len(rk) |->
            <<r - 1, rk[r],
              ClampRound(RawScore(SortedPoints(th),
                                  percentile_from_rank(r - 1, Len(rk)), interp),
                         cmin, cmax, qr)>>]

assign_scores_percentile(rk, th, cmin, cmax, qr, interp) ==
    IF rk = <<>> THEN <<>>
    ELSE [r \in 1..Len(rk) |->
            <<r, rk[r],
              ClampRound(RawScore(SortedPoints(th),
                                  percentile_from_rank(r - 1, Len(rk)), interp),
                         cmin, cmax, qr)>>]

\* ------------------------------------------------------------------------
\* Inputs of the scoring step
\* ------------------------------------------------------------------------
Key(shape, n, d, sn, sd) ==
    [shape |-> shape, key |-> Rat(n, d), ok |-> TRUE, val |-> Rat(sn, sd)]
BadVal(shape, n, d) ==
    [shape |-> shape, key |-> Rat(n, d), ok |-> FALSE, val |-> Zero]
Dict(items) == [kind |-> "dict", items |-> items]

Configs ==
    { Blank,
      [kind |-> "malformed", items |-> <<>>],
      \* {"90%": 9, "0.5": 7}
      Dict(<<Key("pct", 90, 1, 9, 1), Key("str", 1, 2, 7, 1)>>),
      \* {"0.9": 5, "90": 8}: both keys are the fraction 0.9
      Dict(<<Key("str", 9, 10, 5, 1), Key("str", 90, 1, 8, 1)>>),
      \* {0: 9, 0.5: 6, 1: 8}: scores not monotone in percentile
      Dict(<<Key("num", 0, 1, 9, 1), Key("num", 1, 2, 6, 1), Key("num", 1, 1, 8, 1)>>),
      \* {"abc": 7}: no valid entry
      Dict(<<Key("bad", 0, 1, 7, 1)>>),
      \* {150: 10, -0.5: 6.5, "50%": "x"}
      Dict(<<Key("num", 150, 1, 10, 1), Key("num", -1, 2, 13, 2), BadVal("pct", 50, 1)>>),
      \* {"30": 2, "0.6": 12.3}: scores outside every clamp range
      Dict(<<Key("str", 30, 1, 2, 1), Key("str", 3, 5, 123, 10)>>) }

Clamps ==
    { <<Rat(6, 1), Rat(10, 1)>>,
      <<Rat(61, 10), Rat(99, 10)>>,
      <<Rat(7, 1), Rat(17, 2)>> }

\* main: read the configuration, then assign_scores_percentile(ranked, ...)
Score(s, cl, qr, interp) ==
    /\ pc = "ranked"
    /\ RatLt(cl[1], cl[2])
    /\ raw' = s
    /\ thresholds' = ThresholdsFor(s)
    /\ clamp_min' = cl[1] /\ clamp_max' = cl[2]
    /\ quarter_round' = qr /\ interpolate' = interp
    /\ score_raw' = RawScores(ranked, ThresholdsFor(s), interp)
    /\ scored' = assign_scores_percentile(ranked, ThresholdsFor(s), cl[1], cl[2], qr, interp)
    /\ pc' = "scored"
    /\ UNCHANGED <<mode, rankVars>>

\* main, rescoring path: load_albums_from_csv gives an already ranked list
LoadCsv(n) ==
    /\ pc = "idle"
    /\ n >= 1
    /\ mode' = "rescore"
    /\ ranked' = Ident(n)
    /\ pc' = "ranked"
    /\ UNCHANGED <<albums, better, consistent, comparison_count, total_comparisons,
                   ordered, i, lo, hi, choice, retries, asked, verdicts, given,
                   report, scoreVars>>

Next ==
    \/ \E n \in 0..MaxAlbums : \E b \in Perms(n) : RankAlbums(Ident(n), b, TRUE)
    \/ \E n \in 0..MaxAlbums : RankAlbums(Ident(n), Ident(n), FALSE)
    \/ \E ch \in {"1", "2"} : Verdict(ch)
    \/ Inspect
    \/ Invalid
    \/ Quit
    \/ \E s \in Configs, cl \in Clamps, qr \in BOOLEAN, interp \in BOOLEAN :
          Score(s, cl, qr, interp)
    \/ \E n \in 1..MaxCsvRows : LoadCsv(n)

Spec == Init /\ [][Next]_vars

\* ------------------------------------------------------------------------
\* Properties
\* ------------------------------------------------------------------------
Returned == mode = "fresh" /\ pc \in {"ranked", "scored"}

\* C1: under a consistent oracle the sequence returned by
\* rank_albums_by_comparisons is a permutation of the input list (same
\* length, same items, none twice) sorted best-first by the oracle's order.
C1_RankingIsSortedPermutation ==
    (Returned /\ consistent) =>
        /\ Len(ranked) = Len(albums)
        /\ Range(ranked) = Range(albums)
        /\ \A a, b \in 1..Len(ranked) :
              a < b => PosOf(better, ranked[a]) < PosOf(better, ranked[b])

C1_Witness ==
    /\ Returned /\ pc = "ranked" /\ consistent
    /\ Len(albums) >= 4
    /\ verdicts >= 4
    /\ ranked # albums
    /\ ranked = better

\* C2 as stated: under a consistent oracle a session over N items performs
\* exactly estimate_comparisons(N) verdict calls.
C2_ExactlyEstimate ==
    (Returned /\ consistent) => verdicts = estimate_comparisons(Len(albums))

\* the estimate by its values: 0, 0, 1, 3, 5, 8, 11, 14 for N = 0..7
EstimateTable == <<0, 1, 3, 5, 8, 11, 14>>

\* C2 (amended): under a consistent oracle a session over N items performs at
\* most estimate_comparisons(N) verdict calls and at least the sum over
\* i = 2..N of floor(log2(i)); the two agree, so the count is exact, for
\* N <= 2.  The estimate is the sum of ceil(log2(i)) (0 for N <= 1, 8 for
\* N = 5) and, for N >= 1, the counter at return is the number of verdicts.
C2_AtMostEstimate ==
    (Returned /\ consistent) =>
        LET n == Len(albums) IN
        /\ verdicts <= estimate_comparisons(n)
        /\ verdicts >= (IF n <= 1 THEN 0 ELSE SumFloorLog2(2, n))
        /\ n <= 2 => verdicts = estimate_comparisons(n)
        /\ n = 0 => estimate_comparisons(n) = 0
        /\ n \in 1..7 => total_comparisons = EstimateTable[n]
        /\ \A k \in 1..7 : estimate_comparisons(k) = EstimateTable[k]
        /\ n >= 1 => comparison_count = verdicts /\ comparison_count <= total_comparisons

C2_Witness ==
    /\ Returned /\ pc = "ranked" /\ consistent
    /\ Len(albums) = 4
    /\ total_comparisons = 5
    /\ verdicts = 4

\* C3: at a prompt of ask_preference, an input "1" or "2" adds exactly one to
\* the comparison counter and ends the call; an input "i" or an unrecognized
\* input leaves the counter, the estimate, the ordered sequence and the pair
\* being compared unchanged and prompts again.
C3_VerdictCountsInspectDoesNot ==
    [][ pc = "ask" =>
          /\ choice' \in {"1", "2"} =>
                /\ comparison_count' = comparison_count + 1
                /\ total_comparisons' = total_comparisons
                /\ retries' = 0
                /\ asked' = asked + 1 \/ pc' = "ranked"
          /\ choice' \in {"i", "?"} =>
                /\ pc' = "ask"
                /\ asked' = asked
                /\ UNCHANGED <<comparison_count, total_comparisons, ordered,
                               albums, i, lo, hi, ranked, report, verdicts>>
      ]_vars

C3_Witness ==
    /\ pc = "ask"
    /\ choice \in {"i", "?"}
    /\ retries >= 2
    /\ comparison_count >= 2
    /\ Len(ordered) >= 2

\* C4: an input "q" at any prompt ends the whole session at once: the step
\* that reads it returns no ranking, and after it nothing changes any more
\* (no prompt, insertion, progress line or score), so neither an ordered
\* sequence nor a scored result of the session exists, not even a partial one.
C4_QuitTerminatesSession ==
    [][ (choice' = "q" \/ pc = "exited") =>
          /\ pc' = "exited"
          /\ ranked' = <<>> /\ scored' = <<>> /\ score_raw' = <<>>
          /\ UNCHANGED <<ordered, asked, verdicts, report, comparison_count,
                         total_comparisons, i, lo, hi>>
      ]_vars

C4_Witness ==
    /\ pc = "exited"
    /\ choice = "q"
    /\ Len(ordered) >= 2
    /\ verdicts >= 1
    /\ ranked = <<>> /\ scored = <<>>

\* C9: a list of 0 items gives an empty ranking and an empty scored output,
\* and a list of 1 item gives the single-element ranking; in both cases
\* ask_preference is never called and the call returns normally.
C9_EmptyAndSingleton ==
    (mode = "fresh" /\ pc # "idle" /\ Len(albums) <= 1) =>
        /\ pc \in {"ranked", "scored"}
        /\ asked = 0 /\ verdicts = 0
        /\ ranked = albums
        /\ pc = "scored" => Len(scored) = Len(albums)
        /\ (pc = "scored" /\ Len(albums) = 1) => scored[1][2] = albums[1]

C9_Witness ==
    /\ mode = "fresh" /\ pc = "scored"
    /\ albums = <<>> /\ ranked = <<>> /\ scored = <<>>
    /\ thresholds # {}

\* C10 as stated: once a session has started, and before its first verdict,
\* the comparison count is 0 and the estimate is estimate_comparisons(N) of
\* this session's input, whatever ran before.
C10_CountersResetEachSession ==
    (mode = "fresh" /\ pc \in {"ask", "ranked"} /\ verdicts = 0) =>
        /\ comparison_count = 0
        /\ total_comparisons = estimate_comparisons(Len(albums))

\* C5 as stated: every score returned by assign_scores_percentile lies in
\* [clamp_min, clamp_max], for every flag setting and clamp_min < clamp_max.
C5_ScoreWithinClamp ==
    pc = "scored" =>
        \A r \in 1..Len(scored) :
            RatLe(clamp_min, scored[r][3]) /\ RatLe(scored[r][3], clamp_max)

\* the entries of a configuration that survive parsing: valid key and value,
\* and no later valid entry with the same fraction
ValidAt(items, k) == items[k].ok /\ parse_key_to_frac(items[k]) # NoFrac
Surviving(s) ==
    {<<parse_key_to_frac(s.items[k]), s.items[k].val>> :
        k \in {j \in 1..Len(s.items) :
                 /\ ValidAt(s.items, j)
                 /\ \A m \in (j + 1)..Len(s.items) :
                       ValidAt(s.items, m) =>
                           parse_key_to_frac(s.items[m]) # parse_key_to_frac(s.items[j])}}

\* C6 as stated: every threshold set handed to the resolver, the default set
\* of a blank configuration included, has an entry at 0.0 and one at 1.0.
C6_BoundaryEntriesAlways ==
    pc = "scored" => (Zero \in DictKeys(thresholds) /\ One \in DictKeys(thresholds))

\* C6 (amended): a threshold set that parse_thresholds_dict builds from a
\* non-blank configuration has entries at 0.0 and 1.0 besides the entries
\* that survive parsing; an entry manufactured at 0.0 carries the minimum and
\* one manufactured at 1.0 the maximum of the surviving scores.  The default
\* set (blank configuration, or main's fallback) has an entry at 0.0 and none
\* at 1.0: its greatest percentile is 0.99.
C6_BoundaryEntriesWhenParsed ==
    pc = "scored" =>
        IF raw.kind = "dict" /\ Surviving(raw) # {}
        THEN LET sv == Surviving(raw) IN
             /\ sv \subseteq thresholds
             /\ DictKeys(thresholds) = DictKeys(sv) \cup {Zero, One}
             /\ Cardinality(thresholds) = Cardinality(DictKeys(thresholds))
             /\ Zero \notin DictKeys(sv) => DictGet(thresholds, Zero) = MinOf(DictValues(sv))
             /\ One \notin DictKeys(sv) => DictGet(thresholds, One) = MaxOf(DictValues(sv))
        ELSE /\ thresholds = DefaultThresholds
             /\ Zero \in DictKeys(thresholds)
             /\ One \notin DictKeys(thresholds)
             /\ MaxOf(DictKeys(thresholds)) = <<99, 100>>

C6_Witness ==
    /\ pc = "scored"
    /\ raw.kind = "dict"
    /\ Len(raw.items) = 2
    /\ Cardinality(Surviving(raw)) = 1
    /\ Cardinality(thresholds) = 3
    /\ DictGet(thresholds, Zero) = <<8, 1>>
    /\ DictGet(thresholds, One) = <<8, 1>>

\* the score of the greatest threshold point at or below percentile p, the
\* smallest point's score when there is none
StepPoint(th, p) ==
    LET Q == {e \in th : RatLe(Clamp01(e[1]), p)}
    IN  IF Q # {}
        THEN (CHOOSE e \in Q : \A o \in Q : RatLe(Clamp01(o[1]), Clamp01(e[1])))[2]
        ELSE (CHOOSE e \in th : \A o \in th : RatLe(Clamp01(e[1]), Clamp01(o[1])))[2]

PercentileAt(r, n) == IF n <= 1 THEN <<1, 1>> ELSE Rat(n - r, n - 1)

\* C7: in step mode the score of every ranked item, before clamping, is the
\* score of the greatest threshold point whose clamped percentile is at most
\* the item's percentile; with the default thresholds, clamp [6, 10] and
\* quarter rounding, percentile 1.0 scores 10.0, 0.95 scores 9.5, 0.5 scores
\* 7.5 and 0.0 scores 6.0.
C7_StepPicksGreatestPointBelow ==
    (pc = "scored" /\ ~interpolate) =>
        LET n == Len(ranked) IN
        /\ Len(score_raw) = n
        /\ \A r \in 1..n : score_raw[r] = StepPoint(thresholds, PercentileAt(r, n))
        /\ (thresholds = DefaultThresholds /\ quarter_round
                /\ clamp_min = <<6, 1>> /\ clamp_max = <<10, 1>>) =>
              \A r \in 1..n :
                  /\ PercentileAt(r, n) = <<1, 1>> => scored[r][3] = <<10, 1>>
                  /\ PercentileAt(r, n) = <<19, 20>> => scored[r][3] = <<19, 2>>
                  /\ PercentileAt(r, n) = <<1, 2>> => scored[r][3] = <<15, 2>>
                  /\ PercentileAt(r, n) = <<0, 1>> => scored[r][3] = <<6, 1>>

C7_Witness ==
    /\ pc = "scored" /\ ~interpolate /\ quarter_round
    /\ thresholds = DefaultThresholds
    /\ clamp_min = <<6, 1>> /\ clamp_max = <<10, 1>>
    /\ Len(ranked) = 21
    /\ scored[1][3] = <<10, 1>> /\ scored[2][3] = <<19, 2>>
    /\ scored[11][3] = <<15, 2>> /\ scored[21][3] = <<6, 1>>

\* C8: assign_scores_percentile returns one triple per ranked item, the
\* triple at position r being (r, the r-th ranked item, its score): ranks are
\* 1..N ascending and the items keep the order of the ranking, also when a
\* better-ranked item gets a lower score.
C8_ScoringPreservesOrder ==
    pc = "scored" =>
        /\ Len(scored) = Len(ranked)
        /\ \A r \in 1..Len(scored) :
              /\ Len(scored[r]) = 3
              /\ scored[r][1] = r
              /\ scored[r][2] = ranked[r]

C8_Witness ==
    /\ pc = "scored" /\ mode = "fresh"
    /\ Len(ranked) >= 3
    /\ ranked # albums
    /\ \E a, b \in 1..Len(scored) : a < b /\ RatLt(scored[a][3], scored[b][3])

\* the sequence of the session: `ordered` while the loop runs, the returned
\* list afterwards
CurrentSeq == IF pc \in {"ranked", "scored"} THEN ranked ELSE ordered

AgreesWithVerdicts ==
    mode = "fresh" =>
        \A v \in given :
            /\ v[1] # v[2]
            /\ <<v[2], v[1]>> \notin given
            /\ (v[1] \in Range(CurrentSeq) /\ v[2] \in Range(CurrentSeq)) =>
                  PosOf(CurrentSeq, v[1]) < PosOf(CurrentSeq, v[2])

RelativeOrderKept ==
    pc = "ask" =>
        /\ Range(ordered) \subseteq Range(CurrentSeq')
        /\ \A a, b \in Range(ordered) :
              PosOf(ordered, a) < PosOf(ordered, b) =>
                  PosOf(CurrentSeq', a) < PosOf(CurrentSeq', b)

\* C11: at every point of a session, for every oracle (also one that does
\* not answer from a total order), every verdict given so far is respected by
\* the sequence: the preferred item of the pair stands before the other once
\* both are in it; and no step of a search or insertion changes the relative
\* order of two items already in the sequence.
C11_SequenceAgreesWithVerdicts ==
    []AgreesWithVerdicts /\ [][RelativeOrderKept]_vars

C11_Witness ==
    /\ mode = "fresh" /\ pc = "ranked" /\ ~consistent
    /\ Len(ranked) = 4
    /\ Cardinality(given) >= 5
    /\ \E v \in given : v[1] > v[2]
    /\ \E v \in given : v[1] < v[2]
    /\ \E v \in given : PosOf(ranked, v[2]) > PosOf(ranked, v[1]) + 1

\* the comparison count of the last progress line, 0 before the first one
CountAtLastReport == IF report = <<>> THEN 0 ELSE report[3]

CountWithinEstimate ==
    (mode = "fresh" /\ Len(albums) >= 1) =>
        /\ total_comparisons = estimate_comparisons(Len(albums))
        /\ comparison_count = verdicts
        /\ comparison_count <= total_comparisons
        /\ total_comparisons - comparison_count >= 0
        /\ pc = "ask" => comparison_count < total_comparisons
        /\ report # <<>> =>
              /\ report[4] = total_comparisons
              /\ report[3] * 100 <= report[4] * 100

\* the step that inserts into a sequence of length k used c verdicts for
\* that insertion, with 1 <= c and 2^(c-1) <= k, i.e. c <= ceil(log2(k+1))
InsertionCost ==
    (pc = "ask" /\ report' # report) =>
        LET k == Len(ordered)
            c == report'[3] - CountAtLastReport
        IN  /\ Len(CurrentSeq') = k + 1
            /\ c >= 1
            /\ 2 ^ (c - 1) <= k

\* C12: for every N >= 1 and every oracle, at every point of the session the
\* comparison counter is at most the estimate computed at session start (so
\* the displayed remaining count is never negative and the reported progress
\* never exceeds 100%), a prompt is only shown while the counter is below the
\* estimate (so the session ends after at most estimate_comparisons(N)
\* verdicts), and an insertion into a sequence of length k takes at least 1
\* and at most ceil(log2(k+1)) verdicts.
C12_CountNeverExceedsEstimate ==
    []CountWithinEstimate /\ [][InsertionCost]_vars

C12_Witness ==
    /\ mode = "fresh" /\ pc = "ranked" /\ ~consistent
    /\ Len(albums) = 4
    /\ comparison_count = total_comparisons
    /\ total_comparisons = 5
    /\ report = <<4, 4, 5, 5>>

====
